---- MODULE Spec2Model ----
(***************************************************************************)
(* WebRTC video signaling server (src/api/index.ts).                       *)
(*                                                                         *)
(* The server keeps two maps, rooms (roomId -> Set<socketId>) and peers    *)
(* (socketId -> PeerInfo), and reacts to the Socket.IO events of each      *)
(* connection.  Every handler runs to completion, so each event is one     *)
(* action.  The Socket.IO adapter is part of the state: every socket is in *)
(* the transport room named by its own id from connection to disconnect,   *)
(* socket.join(roomId) adds a transport room, and an emit is delivered to  *)
(* the sockets that are in the addressed transport room when it is issued. *)
(*                                                                         *)
(* Socket ids and room names are drawn from disjoint sets of integers.     *)
(***************************************************************************)
EXTENDS Integers, FiniteSets, Sequences, Bags, TLC

NumConns == 3
NumRooms == 2
MaxEvents == 6

ConnIds == 1..NumConns
RoomIds == (NumConns + 1)..(NumConns + NumRooms)
Usernames == {"Alice", "Bob"}
Payloads == {"sdpX", "sdpY"}

VARIABLES
    conn,       \* socket id -> "new" | "open" | "closed"
    adapter,    \* socket id -> the transport rooms the socket is in
    rooms,      \* the rooms map: a function whose domain is the set of keys
    peers,      \* the peers map: a function whose domain is the set of keys
    ev,         \* the event handled last
    emits,      \* the emit calls the last handler made
    delivered,  \* the bag of (recipient, message) those emits produced
    steps       \* number of connection, join, leave and disconnect events so far

vars == <<conn, adapter, rooms, peers, ev, emits, delivered, steps>>

----------------------------------------------------------------------------
(* Map<K, V> *)

Has(m, k) == k \in DOMAIN m

MapSet(m, k, v) == [x \in DOMAIN m \cup {k} |-> IF x = k THEN v ELSE m[x]]

MapDelete(m, k) == [x \in DOMAIN m \ {k} |-> m[x]]

EmptyMap == [x \in {} |-> {}]

PeerInfo(socketId, username, roomId) ==
    [socketId |-> socketId, username |-> username, roomId |-> roomId]

----------------------------------------------------------------------------
(* Socket.IO transport *)

\* The sockets that are in transport room `name`.
InRoom(ad, name) == {c \in ConnIds : name \in ad[c]}

\* One emit call: op is "socket.emit", "io.to" or "socket.to".
Emit(op, socket, target, event, data) ==
    [op |-> op, socket |-> socket, target |-> target, event |-> event, data |-> data]

\* The sockets an emit call reaches.  socket.emit writes to the socket itself
\* (while it is connected), not to a room; io.to and socket.to address a room,
\* socket.to leaving out the sockets in the room of the sender's id.
Recipients(ad, e) ==
    CASE e.op = "socket.emit" -> IF e.socket \in ad[e.socket] THEN {e.socket} ELSE {}
      [] e.op = "io.to"       -> InRoom(ad, e.target)
      [] e.op = "socket.to"   -> InRoom(ad, e.target) \ InRoom(ad, e.socket)

Msg(to, event, data) == [to |-> to, event |-> event, data |-> data]

RECURSIVE Deliver(_, _)
Deliver(ad, es) ==
    IF es = {} THEN EmptyBag
    ELSE LET e == CHOOSE x \in es : TRUE
         IN  SetToBag({Msg(r, e.event, e.data) : r \in Recipients(ad, e)})
               (+) Deliver(ad, es \ {e})

\* Number of messages in bag b that satisfy the test.
Count(b, Test(_)) ==
    BagCardinality([m \in {x \in BagToSet(b) : Test(x)} |-> b[m]])

----------------------------------------------------------------------------
(* Events *)

Event(type, from, roomId, username, to, data, hadPeer) ==
    [type |-> type, from |-> from, roomId |-> roomId, username |-> username,
     to |-> to, data |-> data, hadPeer |-> hadPeer]

\* The events that do not touch conn, adapter, rooms or peers.
SignalingEvents ==
    {"offer", "answer", "ice-candidate", "start-screen-share", "stop-screen-share"}

\* A signaling event changes nothing the server reads later, so what can follow
\* it is what could follow the state it was handled in: a run handles one
\* signaling event, as its last event.
Running == ev.type \notin SignalingEvents

\* The shapes of the state: Map<string, Set<string>>, Map<string, PeerInfo>,
\* and the sockets with their transport rooms.
TypeOK ==
    /\ conn \in [ConnIds -> {"new", "open", "closed"}]
    /\ adapter \in [ConnIds -> SUBSET (ConnIds \cup RoomIds)]
    /\ DOMAIN rooms \subseteq RoomIds
    /\ \A r \in DOMAIN rooms : rooms[r] \subseteq ConnIds
    /\ DOMAIN peers \subseteq ConnIds
    /\ \A c \in DOMAIN peers :
          /\ peers[c].socketId = c
          /\ peers[c].username \in Usernames
          /\ peers[c].roomId \in RoomIds
    /\ \A e \in emits : e.op \in {"socket.emit", "io.to", "socket.to"}
    /\ \A m \in BagToSet(delivered) : m.to \in ConnIds /\ conn[m.to] = "open"
    /\ steps \in 0..MaxEvents

Init ==
    /\ conn = [c \in ConnIds |-> "new"]
    /\ adapter = [c \in ConnIds |-> {}]
    /\ rooms = EmptyMap
    /\ peers = EmptyMap
    /\ ev = Event("none", 0, 0, "", 0, "", FALSE)
    /\ emits = {}
    /\ delivered = EmptyBag
    /\ steps = 0

\* io.on('connection'): the socket exists and is in the room of its own id.
\* The server assigns the ids: the k-th connection gets id k.
Connection(s) ==
    /\ conn[s] = "new"
    /\ \A c \in ConnIds : c < s => conn[c] # "new"
    /\ Running
    /\ steps < MaxEvents
    /\ conn' = [conn EXCEPT ![s] = "open"]
    /\ adapter' = [adapter EXCEPT ![s] = {s}]
    /\ ev' = Event("connection", s, 0, "", 0, "", FALSE)
    /\ emits' = {}
    /\ delivered' = EmptyBag
    /\ steps' = steps + 1
    /\ UNCHANGED <<rooms, peers>>

----------------------------------------------------------------------------
(* join-room *)

\* peers.set(socket.id, {socketId, username, roomId})
JoinPeers(s, roomId, username) == MapSet(peers, s, PeerInfo(s, username, roomId))

\* rooms.set(roomId, new Set()) without the rooms.has test.
JoinEnsureRoom_AlwaysNew(roomId) == MapSet(rooms, roomId, {})

\* if (!rooms.has(roomId)) rooms.set(roomId, new Set())
JoinEnsureRoom(roomId) ==
    IF ~Has(rooms, roomId) THEN MapSet(rooms, roomId, {}) ELSE rooms

\* The forEach run after room.add(socket.id): the joiner is visited too.
JoinEmits_AddFirst(s, roomId, username) ==
    LET peers1 == JoinPeers(s, roomId, username)
        room   == JoinEnsureRoom(roomId)[roomId] \cup {s}
    IN  UNION {
          { Emit("socket.emit", s, s, "user-connected",
                 [userId |-> existingPeerId, username |-> peers1[existingPeerId].username]),
            Emit("io.to", s, existingPeerId, "user-connected",
                 [userId |-> s, username |-> username]) }
          : existingPeerId \in {x \in room : Has(peers1, x)} }

\* room.forEach(existingPeerId => ...): two emits per member that has a Peer
\* record, looked up after this socket's own record has been written.
JoinEmits(s, roomId, username) ==
    LET peers1 == JoinPeers(s, roomId, username)
        room   == JoinEnsureRoom(roomId)[roomId]
    IN  UNION {
          { Emit("socket.emit", s, s, "user-connected",
                 [userId |-> existingPeerId, username |-> peers1[existingPeerId].username]),
            Emit("io.to", s, existingPeerId, "user-connected",
                 [userId |-> s, username |-> username]) }
          : existingPeerId \in {x \in room : Has(peers1, x)} }

\* room.add(socket.id)
JoinRooms(s, roomId) ==
    LET rooms1 == JoinEnsureRoom(roomId)
    IN  MapSet(rooms1, roomId, rooms1[roomId] \cup {s})

\* socket.join(roomId)
SocketJoin(ad, s, roomId) == [ad EXCEPT ![s] = ad[s] \cup {roomId}]

JoinRoom(s, roomId, username) ==
    /\ conn[s] = "open"
    /\ Running
    /\ steps < MaxEvents
    /\ peers' = JoinPeers(s, roomId, username)
    /\ rooms' = JoinRooms(s, roomId)
    /\ emits' = JoinEmits(s, roomId, username)
    /\ delivered' = Deliver(adapter, emits')
    /\ adapter' = SocketJoin(adapter, s, roomId)
    /\ ev' = Event("join-room", s, roomId, username, 0, "", Has(peers, s))
    /\ steps' = steps + 1
    /\ UNCHANGED conn

----------------------------------------------------------------------------
(* offer, answer, ice-candidate *)

\* The offer relayed only to a target registered in the sender's room.
OfferEmits_SameRoomOnly(s, to, offer) ==
    IF Has(peers, s) /\ Has(peers, to) /\ peers[to].roomId = peers[s].roomId
    THEN {Emit("io.to", s, to, "offer",
               [offer |-> offer, from |-> s, username |-> peers[s].username])}
    ELSE {}

OfferEmits(s, to, offer) ==
    IF Has(peers, s)
    THEN {Emit("io.to", s, to, "offer",
               [offer |-> offer, from |-> s, username |-> peers[s].username])}
    ELSE {}

AnswerEmits(s, to, answer) ==
    IF Has(peers, s)
    THEN {Emit("io.to", s, to, "answer",
               [answer |-> answer, from |-> s, username |-> peers[s].username])}
    ELSE {}

\* The candidate relayed under the `if (fromPeer)` test of offer and answer.
IceCandidateEmits_PeerTest(s, to, candidate) ==
    IF Has(peers, s)
    THEN {Emit("io.to", s, to, "ice-candidate", [candidate |-> candidate, from |-> s])}
    ELSE {}

IceCandidateEmits(s, to, candidate) ==
    {Emit("io.to", s, to, "ice-candidate", [candidate |-> candidate, from |-> s])}

\* A handler that drops the sender's Peer record when its emit has no target.
Relay_DropsSenderWithoutTarget(type, s, roomId, to, data, es) ==
    /\ conn[s] = "open"
    /\ Running
    /\ emits' = es
    /\ delivered' = Deliver(adapter, es)
    /\ ev' = Event(type, s, roomId, "", to, data, Has(peers, s))
    /\ peers' = IF delivered' = EmptyBag THEN MapDelete(peers, s) ELSE peers
    /\ UNCHANGED <<conn, adapter, rooms, steps>>

\* A handler that only emits: the registry and the transport rooms stay.
Relay(type, s, roomId, to, data, es) ==
    /\ conn[s] = "open"
    /\ Running
    /\ emits' = es
    /\ delivered' = Deliver(adapter, es)
    /\ ev' = Event(type, s, roomId, "", to, data, Has(peers, s))
    /\ UNCHANGED <<conn, adapter, rooms, peers, steps>>

Offer(s, to, offer) == Relay("offer", s, 0, to, offer, OfferEmits(s, to, offer))

Answer(s, to, answer) == Relay("answer", s, 0, to, answer, AnswerEmits(s, to, answer))

IceCandidate(s, to, candidate) ==
    Relay("ice-candidate", s, 0, to, candidate, IceCandidateEmits(s, to, candidate))

----------------------------------------------------------------------------
(* start-screen-share, stop-screen-share *)

\* The broadcast without the `if (peer)` test (peer?.username).
StartScreenShareEmits_NoPeerTest(s, roomId) ==
    {Emit("socket.to", s, roomId, "screen-share-started",
          [userId |-> s, username |-> IF Has(peers, s) THEN peers[s].username ELSE ""])}

StartScreenShareEmits(s, roomId) ==
    IF Has(peers, s)
    THEN {Emit("socket.to", s, roomId, "screen-share-started",
               [userId |-> s, username |-> peers[s].username])}
    ELSE {}

StopScreenShareEmits(s, roomId) ==
    IF Has(peers, s)
    THEN {Emit("socket.to", s, roomId, "screen-share-stopped", [userId |-> s])}
    ELSE {}

StartScreenShare(s, roomId) ==
    Relay("start-screen-share", s, roomId, 0, "", StartScreenShareEmits(s, roomId))

StopScreenShare(s, roomId) ==
    Relay("stop-screen-share", s, roomId, 0, "", StopScreenShareEmits(s, roomId))

----------------------------------------------------------------------------
(* leave-room, disconnect *)

\* room.delete(socketId) without the deletion of the emptied room.
RemoveMember_KeepEmpty(rms, roomId, socketId) ==
    MapSet(rms, roomId, rms[roomId] \ {socketId})

\* room.delete(socketId); if (room.size === 0) rooms.delete(roomId)
RemoveMember(rms, roomId, socketId) ==
    LET room == rms[roomId] \ {socketId}
    IN  IF room = {} THEN MapDelete(rms, roomId) ELSE MapSet(rms, roomId, room)

\* The rooms map after handleDisconnect(socketId).
DisconnectRooms(socketId) ==
    IF Has(peers, socketId) /\ Has(rooms, peers[socketId].roomId)
    THEN RemoveMember(rooms, peers[socketId].roomId, socketId)
    ELSE rooms

\* The peers map after handleDisconnect(socketId).
DisconnectPeers(socketId) ==
    IF Has(peers, socketId) THEN MapDelete(peers, socketId) ELSE peers

\* The broadcast sent to the rooms the socket has joined, without the peer lookup.
DisconnectEmits_NoPeerLookup(socketId) ==
    {Emit("socket.to", socketId, r, "user-disconnected", [userId |-> socketId])
       : r \in adapter[socketId] \cap RoomIds}

\* socket.to(roomId).emit('user-disconnected', {userId: socketId})
DisconnectEmits(socketId) ==
    IF Has(peers, socketId) /\ Has(rooms, peers[socketId].roomId)
    THEN {Emit("socket.to", socketId, peers[socketId].roomId, "user-disconnected",
               [userId |-> socketId])}
    ELSE {}

\* const { roomId } = peer: the room handleDisconnect works on, 0 without a peer.
LeftRoom(socketId) == IF Has(peers, socketId) THEN peers[socketId].roomId ELSE 0

\* handleDisconnect(socketId), with the transport rooms as they are when it runs.
HandleDisconnect(socketId, ad) ==
    /\ rooms' = DisconnectRooms(socketId)
    /\ peers' = DisconnectPeers(socketId)
    /\ emits' = DisconnectEmits(socketId)
    /\ delivered' = Deliver(ad, emits')

LeaveRoom(s) ==
    /\ conn[s] = "open"
    /\ Running
    /\ steps < MaxEvents
    /\ HandleDisconnect(s, adapter)
    /\ ev' = Event("leave-room", s, LeftRoom(s), "", 0, "", Has(peers, s))
    /\ steps' = steps + 1
    /\ UNCHANGED <<conn, adapter>>

\* The transport closes the socket, which leaves all its transport rooms, and
\* then fires 'disconnect'.
SocketClose(ad, s) == [ad EXCEPT ![s] = {}]

Disconnect(s) ==
    /\ conn[s] = "open"
    /\ Running
    /\ steps < MaxEvents
    /\ conn' = [conn EXCEPT ![s] = "closed"]
    /\ adapter' = SocketClose(adapter, s)
    /\ HandleDisconnect(s, adapter')
    /\ ev' = Event("disconnect", s, LeftRoom(s), "", 0, "", Has(peers, s))
    /\ steps' = steps + 1

----------------------------------------------------------------------------
(* GET /health *)

\* Array.from(rooms.values()).reduce((acc, room) => acc + room.size, 0)
RECURSIVE SumSizes(_, _)
SumSizes(rms, keys) ==
    IF keys = {} THEN 0
    ELSE LET k == CHOOSE x \in keys : TRUE
         IN  Cardinality(rms[k]) + SumSizes(rms, keys \ {k})

\* The body of the response for the rooms map rms.
Health(rms) ==
    [status |-> "ok",
     rooms |-> Cardinality(DOMAIN rms),
     totalPeers |-> SumSizes(rms, DOMAIN rms)]

----------------------------------------------------------------------------

Next ==
    \E s \in ConnIds :
        \/ Connection(s)
        \/ \E roomId \in RoomIds, username \in Usernames : JoinRoom(s, roomId, username)
        \/ \E to \in ConnIds, offer \in Payloads : Offer(s, to, offer)
        \/ \E to \in ConnIds, answer \in Payloads : Answer(s, to, answer)
        \/ \E to \in ConnIds, candidate \in Payloads : IceCandidate(s, to, candidate)
        \/ \E roomId \in RoomIds : StartScreenShare(s, roomId)
        \/ \E roomId \in RoomIds : StopScreenShare(s, roomId)
        \/ LeaveRoom(s)
        \/ Disconnect(s)

Spec == Init /\ [][Next]_vars

----------------------------------------------------------------------------
(* Vocabulary of the properties *)

\* The member set of room r, empty when the rooms map has no such key.
Members(rms, r) == IF Has(rms, r) THEN rms[r] ELSE {}

\* The rooms whose member set holds connection c.
RoomsOf(c) == {r \in DOMAIN rooms : c \in rooms[r]}

\* The step is the handling of a leave-room or disconnect event of s.
Leaves(s) == LeaveRoom(s) \/ Disconnect(s)

\* Every step handles one event and records it in ev, so the primed ev of a
\* step names the handler that ran and the arguments it got.

----------------------------------------------------------------------------
(* C1: in every reachable state, connection c is in the member set of room r
   if and only if a Peer record exists for c whose roomId is r. *)
C1_RegistryConsistent ==
    \A c \in ConnIds, r \in RoomIds :
        c \in Members(rooms, r) <=> (Has(peers, c) /\ peers[c].roomId = r)

(* C2: in every reachable state, each connection is in the member set of at
   most one room, also after repeated join-room events without a leave. *)
C2_AtMostOneRoom ==
    \A c \in ConnIds : Cardinality(RoomsOf(c)) <= 1

(* C3: in every state between two events, a room key is in the rooms map if
   and only if some connection is in its member set: no handler leaves an
   empty member set behind. *)
C3_RoomPresentIffNonEmpty ==
    \A r \in RoomIds : Has(rooms, r) <=> (\E c \in ConnIds : c \in Members(rooms, r))

\* A leave-room or disconnect removed the last member of a room and the map
\* lost that key, while another room stays.
C3_Witness ==
    /\ ev.type \in {"leave-room", "disconnect"}
    /\ ev.hadPeer
    /\ ~Has(rooms, ev.roomId)
    /\ DOMAIN rooms # {}

(* C4: when B sends join-room for room r, for every member A of r at that
   moment B is sent exactly one user-connected carrying A's id and display
   name, A is sent exactly one user-connected carrying B's id and display
   name, and nobody outside r (other than B) is sent anything. *)
C4_JoinNotifiesEachMemberOnce ==
    [][\A B \in ConnIds, r \in RoomIds, name \in Usernames :
         JoinRoom(B, r, name) =>
           LET before == Members(rooms, r)
           IN  /\ \A A \in before :
                     /\ Count(delivered', LAMBDA m :
                            /\ m.to = B
                            /\ m.event = "user-connected"
                            /\ m.data.userId = A) = 1
                     /\ \A m \in BagToSet(delivered') :
                            (m.to = B /\ m.data.userId = A /\ Has(peers', A))
                                => m.data.username = peers'[A].username
                     /\ Count(delivered', LAMBDA m :
                            /\ m.to = A
                            /\ m.event = "user-connected"
                            /\ m.data = [userId |-> B, username |-> name]) = 1
               /\ \A m \in BagToSet(delivered') : m.to \in before \cup {B}
      ]_vars

(* C5: when a registered connection A in room r leaves or disconnects, every
   connection that remains a member of r receives exactly one
   user-disconnected with userId = A, nobody else receives anything, and the
   member set of r is the previous one minus A. *)
C5_LeaveNotifiesRemainingMembers ==
    [][\A A \in ConnIds :
         (Leaves(A) /\ Has(peers, A)) =>
           LET r == peers[A].roomId
               remaining == Members(rooms', r)
           IN  /\ remaining = Members(rooms, r) \ {A}
               /\ \A c \in remaining :
                     Count(delivered', LAMBDA m :
                            /\ m.to = c
                            /\ m.event = "user-disconnected"
                            /\ m.data = [userId |-> A]) = 1
               /\ \A m \in BagToSet(delivered') : m.to \in remaining
      ]_vars

(* C6: when a registered connection A that is a member of room r sends
   start-screen-share (stop-screen-share) for r, screen-share-started
   (screen-share-stopped) is delivered once to every other current member of
   r and to nobody else, in particular not to A and not to connections that
   left r. *)
C6_ScreenShareReachesExactlyTheRoom ==
    [][\A A \in ConnIds, r \in RoomIds :
         ( /\ StartScreenShare(A, r) \/ StopScreenShare(A, r)
           /\ Has(peers, A)
           /\ A \in Members(rooms, r) ) =>
           \A c \in ConnIds :
               Count(delivered', LAMBDA m :
                      /\ m.to = c
                      /\ m.event \in {"screen-share-started", "screen-share-stopped"})
                 = IF c \in Members(rooms, r) \ {A} THEN 1 ELSE 0
      ]_vars

\* What one io.to(B).emit(event, data) delivers: to B if B is connected.
Unicast(B, event, data) ==
    IF conn[B] = "open" THEN SetToBag({Msg(B, event, data)}) ELSE EmptyBag

(* C7: when a connection A that has a Peer record sends an offer (answer)
   addressed to any identifier B, exactly one offer (answer) is emitted, to B
   alone, with the payload as received, from = A and username = the display
   name of A's most recent join-room, whether or not B shares a room with A.
   The username of a Peer record is the one of the connection's last
   join-room: a join-room writes it and no other event changes it. *)
C7_OfferAnswerRelayedToTargetOnly ==
    [][ /\ (ev'.type \in {"offer", "answer"} /\ Has(peers, ev'.from)) =>
             LET A == ev'.from
                 B == ev'.to
                 data == IF ev'.type = "offer"
                         THEN [offer |-> ev'.data, from |-> A, username |-> peers[A].username]
                         ELSE [answer |-> ev'.data, from |-> A, username |-> peers[A].username]
             IN  /\ emits' = {Emit("io.to", A, B, ev'.type, data)}
                 /\ delivered' = Unicast(B, ev'.type, data)
        /\ \A A \in ConnIds :
             IF ev'.type = "join-room" /\ ev'.from = A
             THEN Has(peers', A) /\ peers'[A].username = ev'.username
             ELSE Has(peers', A) => (Has(peers, A) /\ peers'[A].username = peers[A].username)
      ]_vars

\* A registered connection sent an offer to a connection registered in another
\* room under another name, and that connection got it.
C7_Witness ==
    /\ ev.type = "offer"
    /\ ev.hadPeer
    /\ Has(peers, ev.to)
    /\ peers[ev.to].roomId # peers[ev.from].roomId
    /\ peers[ev.to].username # peers[ev.from].username
    /\ delivered = SetToBag({Msg(ev.to, "offer",
           [offer |-> ev.data, from |-> ev.from, username |-> peers[ev.from].username])})

(* C8: when a connection without a Peer record sends offer, answer,
   start-screen-share or stop-screen-share, nothing is emitted, nothing is
   delivered and the rooms and peers maps are unchanged. *)
C8_UnknownSenderDropped ==
    [][ ( /\ ev'.type \in {"offer", "answer", "start-screen-share", "stop-screen-share"}
          /\ ~Has(peers, ev'.from) ) =>
           /\ emits' = {}
           /\ delivered' = EmptyBag
           /\ rooms' = rooms
           /\ peers' = peers
      ]_vars

\* A connection that joined a room and left it sent start-screen-share for
\* that room while another connection is still registered in it.
C8_Witness ==
    /\ ev.type = "start-screen-share"
    /\ ~ev.hadPeer
    /\ ev.roomId \in adapter[ev.from]
    /\ Members(rooms, ev.roomId) \ {ev.from} # {}
    /\ delivered = EmptyBag

(* C9: a leave-room or disconnect of a connection without a Peer record
   changes neither map and emits nothing; as every leave-room or disconnect
   ends with the connection having no Peer record, removing a connection
   twice gives the registry that removing it once gives. *)
C9_RemoveUnknownIsNoOp ==
    [][ ev'.type \in {"leave-room", "disconnect"} =>
           /\ ~Has(peers', ev'.from)
           /\ ~Has(peers, ev'.from) =>
                /\ rooms' = rooms
                /\ peers' = peers
                /\ emits' = {}
                /\ delivered' = EmptyBag
      ]_vars

\* A connection that had joined and left sends leave-room once more, while
\* other connections are registered.
C9_Witness ==
    /\ ev.type = "leave-room"
    /\ ~ev.hadPeer
    /\ adapter[ev.from] \cap RoomIds # {}
    /\ DOMAIN peers # {}
    /\ emits = {}

(* C10: a connection that has disconnected has no Peer record and is in no
   room's member set, also when it had joined a second room without leaving
   the first. *)
C10_DisconnectedHoldsNoRegistrySpace ==
    \A c \in ConnIds :
        conn[c] = "closed" => (~Has(peers, c) /\ RoomsOf(c) = {})

(* C11: when a connection that is the only member of room r leaves or
   disconnects, r is absent from the rooms map afterwards and the rooms value
   of the health check is exactly one less than before. *)
C11_LastMemberLeavingRemovesRoom ==
    [][ ev'.type \in {"leave-room", "disconnect"} =>
          \A r \in RoomIds :
              Members(rooms, r) = {ev'.from} =>
                  /\ ~Has(rooms', r)
                  /\ Health(rooms').rooms = Health(rooms).rooms - 1
      ]_vars

(* C12: in every reachable state the health check's totalPeers equals the
   number of connections that have a Peer record, and its rooms value equals
   the number of distinct rooms those Peer records name. *)
C12_HealthCountsRegisteredPeers ==
    /\ Health(rooms).totalPeers = Cardinality(DOMAIN peers)
    /\ Health(rooms).rooms = Cardinality({peers[c].roomId : c \in DOMAIN peers})

(* C13: an ice-candidate event from any connection A addressed to any
   identifier B makes exactly one emit, {candidate, from = A} to B alone,
   whether or not A has a Peer record and whether or not B shares a room with
   A, and changes neither map. *)
C13_IceCandidateAlwaysRelayed ==
    [][ ev'.type = "ice-candidate" =>
          LET data == [candidate |-> ev'.data, from |-> ev'.from]
          IN  /\ emits' = {Emit("io.to", ev'.from, ev'.to, "ice-candidate", data)}
              /\ delivered' = Unicast(ev'.to, "ice-candidate", data)
              /\ rooms' = rooms
              /\ peers' = peers
      ]_vars

\* A connection without a Peer record sent a candidate to a registered
\* connection, which got it.
C13_Witness ==
    /\ ev.type = "ice-candidate"
    /\ ~ev.hadPeer
    /\ ev.to # ev.from
    /\ Has(peers, ev.to)
    /\ delivered = SetToBag({Msg(ev.to, "ice-candidate",
                                 [candidate |-> ev.data, from |-> ev.from])})

(* C14: when a connection sends join-room for a room that is absent from the
   rooms map, nothing is emitted or delivered, and afterwards the room exists
   with that connection as its only member and the Peer record holds the
   supplied room and display name. *)
C14_JoinEmptyRoomIsSilent ==
    [][ (ev'.type = "join-room" /\ ~Has(rooms, ev'.roomId)) =>
          /\ emits' = {}
          /\ delivered' = EmptyBag
          /\ Has(rooms', ev'.roomId)
          /\ rooms'[ev'.roomId] = {ev'.from}
          /\ Has(peers', ev'.from)
          /\ peers'[ev'.from] = PeerInfo(ev'.from, ev'.username, ev'.roomId)
      ]_vars

\* A connection created a room by joining it while another room has members.
C14_Witness ==
    /\ ev.type = "join-room"
    /\ ~ev.hadPeer
    /\ emits = {}
    /\ Has(rooms, ev.roomId)
    /\ rooms[ev.roomId] = {ev.from}
    /\ \E r \in DOMAIN rooms : r # ev.roomId /\ ev.from \notin rooms[r]

(* C15: the registry update of join-room is an idempotent upsert: a
   join-room(r, name) from a connection whose last join-room was for r leaves
   the rooms map as it is and changes nothing in the peers map but that
   connection's record, which holds the new name; with the same name both
   maps are exactly as before. *)
C15_RejoinIsIdempotentUpsert ==
    [][ ( /\ ev'.type = "join-room"
          /\ Has(peers, ev'.from)
          /\ peers[ev'.from].roomId = ev'.roomId ) =>
          /\ rooms' = rooms
          /\ peers' = MapSet(peers, ev'.from,
                             PeerInfo(ev'.from, ev'.username, ev'.roomId))
          /\ peers[ev'.from].username = ev'.username => peers' = peers
      ]_vars

\* A connection joined again the room it is registered in, which it shares
\* with another registered connection, under a name that is another's.
C15_Witness ==
    /\ ev.type = "join-room"
    /\ ev.hadPeer
    /\ RoomsOf(ev.from) = {ev.roomId}
    /\ \E c \in rooms[ev.roomId] \ {ev.from} :
          Has(peers, c) /\ peers[c].username = ev.username

(* C16: the offer, answer, ice-candidate, start-screen-share and
   stop-screen-share handlers never modify the rooms map or the peers map. *)
C16_SignalingLeavesRegistryUnchanged ==
    [][ ev'.type \in SignalingEvents => (rooms' = rooms /\ peers' = peers) ]_vars

\* A registered connection's stop-screen-share reached another connection.
C16_Witness ==
    /\ ev.type = "stop-screen-share"
    /\ ev.hadPeer
    /\ Has(peers, ev.from)
    /\ \E m \in BagToSet(delivered) : m.event = "screen-share-stopped" /\ m.to # ev.from

(* C17: start-screen-share targets the roomId of the event, not the sender's
   registered room: when a registered connection A in room r1 sends it with
   roomId = r2, screen-share-started {userId = A, username = A's name} is
   delivered once to each member of r2 and to no member of r1 (that is not
   also in r2's member set). *)
C17_ScreenShareTargetsSuppliedRoom ==
    [][ ( /\ ev'.type = "start-screen-share"
          /\ Has(peers, ev'.from)
          /\ peers[ev'.from].roomId # ev'.roomId ) =>
          LET A  == ev'.from
              r1 == peers[A].roomId
              r2 == ev'.roomId
              msg == [userId |-> A, username |-> peers[A].username]
          IN  /\ \A c \in Members(rooms, r2) \ {A} :
                    Count(delivered', LAMBDA m :
                           /\ m.to = c
                           /\ m.event = "screen-share-started"
                           /\ m.data = msg) = 1
              /\ \A c \in Members(rooms, r1) \ Members(rooms, r2) :
                    Count(delivered', LAMBDA m : m.to = c) = 0
      ]_vars

(* C18: no connection is ever sent a user-connected message whose userId is
   its own connection identifier. *)
C18_NoSelfUserConnected ==
    \A m \in BagToSet(delivered) :
        m.event = "user-connected" => m.data.userId # m.to

(* C19: the connections the transport delivers a room broadcast
   (user-disconnected, screen-share-started, screen-share-stopped) to are the
   room's registry member set minus the sender, so a connection that sent
   leave-room receives none for the room it left until it joins it again. *)
C19_BroadcastAudienceIsMemberSet ==
    \A e \in emits :
        e.op = "socket.to" =>
            Recipients(adapter, e) = Members(rooms, e.target) \ {e.socket}

(* C20: discovery is complete: when B joins a room it is not yet a member of,
   every connection A that is a member of that room is sent a user-connected
   naming B and B is sent a user-connected naming A, so any two members of a
   room were introduced at the join of the one that joined later. *)
C20_DiscoveryComplete ==
    [][ ( /\ ev'.type = "join-room"
          /\ ev'.from \notin Members(rooms, ev'.roomId) ) =>
          \A A \in Members(rooms, ev'.roomId) :
              /\ Count(delivered', LAMBDA m :
                     /\ m.to = ev'.from
                     /\ m.event = "user-connected"
                     /\ m.data.userId = A) >= 1
              /\ Count(delivered', LAMBDA m :
                     /\ m.to = A
                     /\ m.event = "user-connected"
                     /\ m.data.userId = ev'.from) >= 1
      ]_vars

====
